---- MODULE Spec2Model ----
(***************************************************************************)
(* Infinite Zoom (main.js): the layer stack, the zoom driver, the recycler *)
(* and the handlers that drive them, as a state machine.                   *)
(*                                                                         *)
(* JavaScript numbers are modelled exactly: a number is <<m, d, e>> and    *)
(* stands for (m / d) * 2^e with m and d odd and coprime (zero is          *)
(* <<0, 1, 0>>).  Products, sums and comparisons below are exact, so a     *)
(* scale of 0.0625 * 1.015 is the rational 0.0634375 and not a rounding.   *)
(***************************************************************************)
EXTENDS Integers, Sequences, FiniteSets, TLC

\* ---------------------------------------------------------------- numbers

Abs(a) == IF a < 0 THEN 0 - a ELSE a

RECURSIVE GCD(_, _)
GCD(a, b) == IF b = 0 THEN a ELSE GCD(b, a % b)

RECURSIVE Pow2(_)
Pow2(k) == IF k <= 0 THEN 1 ELSE 2 * Pow2(k - 1)

\* The number of times 2 divides n (n # 0).
RECURSIVE V2(_)
V2(n) == IF n % 2 = 0 THEN 1 + V2(n \div 2) ELSE 0

Zero == <<0, 1, 0>>

\* (n / d) * 2^e in normal form, for integers n, d, e with d > 0.
Norm(n, d, e) ==
    IF n = 0 THEN Zero
    ELSE LET g  == GCD(Abs(n), d)
             n1 == n \div g
             d1 == d \div g
             a  == V2(n1)
             b  == V2(d1)
         IN  <<n1 \div Pow2(a), d1 \div Pow2(b), e + a - b>>

\* The decimal literal n / d.
Q(n, d) == Norm(n, d, 0)

QNeg(x) == <<0 - x[1], x[2], x[3]>>

\* x * y
QMul(x, y) ==
    IF x[1] = 0 \/ y[1] = 0 THEN Zero
    ELSE LET g1 == GCD(Abs(x[1]), y[2])
             g2 == GCD(Abs(y[1]), x[2])
         IN  <<(x[1] \div g1) * (y[1] \div g2),
               (x[2] \div g2) * (y[2] \div g1),
               x[3] + y[3]>>

\* x + y
QAdd(x, y) ==
    IF x[1] = 0 THEN y
    ELSE IF y[1] = 0 THEN x
    ELSE LET e == IF x[3] < y[3] THEN x[3] ELSE y[3]
             g == GCD(x[2], y[2])
         IN  Norm(x[1] * Pow2(x[3] - e) * (y[2] \div g)
                    + y[1] * Pow2(y[3] - e) * (x[2] \div g),
                  (x[2] \div g) * y[2],
                  e)

\* x - y
QSub(x, y) == QAdd(x, QNeg(y))

\* floor(log2(a / b)) for integers a, b > 0.
RECURSIVE Log2Up(_, _)
Log2Up(a, b) == IF a \div 2 >= b THEN 1 + Log2Up(a \div 2, b) ELSE 0

RECURSIVE Log2Down(_, _)
Log2Down(a, b) == IF a >= b THEN 0 ELSE 1 + Log2Down(a, (b + 1) \div 2)

FloorLog2(a, b) == IF a >= b THEN Log2Up(a, b) ELSE 0 - Log2Down(a, b)

\* a / b < c / d for integers a, b, c, d > 0, by the continued fractions of
\* the two sides (no product is formed).
RECURSIVE LessFrac(_, _, _, _)
LessFrac(a, b, c, d) ==
    LET qa == a \div b
        qc == c \div d
        ra == a % b
        rc == c % d
    IN  IF qa # qc THEN qa < qc
        ELSE IF rc = 0 THEN FALSE
        ELSE IF ra = 0 THEN TRUE
        ELSE LessFrac(d, rc, b, ra)

\* x < y for x, y > 0: by binade first, then by the fractions in [1, 2).
LessPos(x, y) ==
    LET jx == FloorLog2(x[1], x[2])
        jy == FloorLog2(y[1], y[2])
    IN  IF x[3] + jx # y[3] + jy THEN x[3] + jx < y[3] + jy
        ELSE LessFrac(IF jx < 0 THEN x[1] * Pow2(0 - jx) ELSE x[1],
                      IF jx > 0 THEN x[2] * Pow2(jx) ELSE x[2],
                      IF jy < 0 THEN y[1] * Pow2(0 - jy) ELSE y[1],
                      IF jy > 0 THEN y[2] * Pow2(jy) ELSE y[2])

\* x < y
QLess(x, y) ==
    IF x[1] <= 0 /\ y[1] >= 0 THEN x[1] < 0 \/ y[1] > 0
    ELSE IF x[1] >= 0 /\ y[1] <= 0 THEN FALSE
    ELSE IF x[1] > 0 THEN LessPos(x, y)
    ELSE LessPos(QNeg(y), QNeg(x))

QLeq(x, y) == ~QLess(y, x)

\* Math.min, Math.max
MathMin(x, y) == IF QLess(y, x) THEN y ELSE x
MathMax(x, y) == IF QLess(x, y) THEN y ELSE x

\* Math.pow(x, k) for an integer k >= 0.
RECURSIVE MathPow(_, _)
MathPow(x, k) == IF k <= 0 THEN Q(1, 1) ELSE QMul(x, MathPow(x, k - 1))

\* Math.sqrt on the perfect squares the model feeds it: the largest r with
\* r * r <= n, found by bisection of lo..hi.
RECURSIVE SqrtBetween(_, _, _)
SqrtBetween(n, lo, hi) ==
    IF lo >= hi THEN lo
    ELSE LET mid == (lo + hi + 1) \div 2
         IN  IF mid * mid <= n THEN SqrtBetween(n, mid, hi) ELSE SqrtBetween(n, lo, mid - 1)

MathSqrt(n) == SqrtBetween(n, 0, IF n < 46340 THEN n ELSE 46340)

\* ----------------------------------------------------------------- CONFIG

ImageCount == 8
baseSpeed == Q(15, 100)
minSpeed == Q(2, 100)
maxSpeed == Q(8, 10)
scrollSensitivity == Q(3, 10000)
recycleScale == Q(4, 1)
initialScale == Q(25, 100)
visibleLayers == 4
rotationSpeed == Q(3, 1000)
rotationEnabled == TRUE
enableVignette == TRUE
parallaxIntensity == Q(15, 1000)
parallaxSmoothing == Q(5, 100)

\* ----------------------------------------------------------------- bounds

\* animation callbacks that pass the gate
MaxTicks == 2
\* user and environment events (keys, wheel, pointer, touch, visibility, ...)
MaxInputs == 2
\* The images (by place in state.images, from 1) whose request can fail.
Unreliable == {1}

\* Milliseconds between the last reading of performance.now() and the one an
\* animation callback takes.
FrameTimes == {0, 5000}
\* Milliseconds between the last reading of performance.now() and the one a
\* load or a resume takes.
IdleTimes == {5000}
\* deltaY of a wheel event
WheelDeltas == {-100, 40000}
\* window.innerWidth, window.innerHeight
WindowSizes == {<<800, 600>>, <<300, 400>>}
\* The touch lists of a touchstart or touchmove: one finger or two, <<clientX, clientY>> each.
TouchLists == {<< <<300, 300>> >>, << <<0, 0>>, <<300, 400>> >>}
\* e.code of a keydown
KeyCodes == {"Space", "ArrowUp", "ArrowDown", "KeyM"}
\* state.zoomSpeed and state.deltaTime (in seconds) at a call of update() taken on
\* its own: the steps go beyond the 0.1 s that animate() passes, so that one
\* call grows several layers past recycleScale (factors from 1 to 17).
Speeds == {minSpeed, baseSpeed, maxSpeed}
Steps == {Zero, Q(1, 10), Q(1, 1), Q(5, 1), Q(25, 4), Q(20, 1)}
\* state.deltaTime (in seconds) of the ticks of the endless run, at zoomSpeed
\* 0.8: the factors are 1, 2 and 4, so that the scales stay powers of two and
\* the stacks the run goes through are finitely many.
LiveSteps == {Zero, Q(5, 4), Q(15, 4)}
\* CONFIG.zoom.visibleLayers, recycleScale, initialScale and
\* CONFIG.images.count as initLayers() may find them.
LayerCounts == 1..6
RecycleScales == {Q(2, 1), Q(4, 1), Q(8, 1)}
InitialScales == {Q(1, 10), Q(1, 4), Q(1, 2)}
ImageCounts == {1, 2, 3, 8}
\* The number of updates the parallax is followed for, the first ExactTicks
\* of them in exact arithmetic as well.
SmoothTicks == 100
ExactTicks == 3
\* e.clientX and e.clientY of the mousemove that sets the target, in a window
\* of 800 x 600 (the centre, where the target is 0 and the current value
\* never leaves it, is not among them).
MouseXs == {0, 300, 800}
MouseYs == {0, 150, 600}
\* CONFIG.cursorHideDelay, in milliseconds.
cursorHideDelay == 2500
\* The cursor timer is followed for MaxActivities mousemove or touchstart
\* events, up to the instant MaxClock; between two steps Waits milliseconds
\* pass.
MaxActivities == 3
MaxClock == 6000
Waits == {500, 2500}
\* The zoom factors a stack has grown by when the recycle loop is taken on
\* its own: none, a tick's largest, and enough for several iterations.
Growths == {Q(1, 1), Q(108, 100), Q(5, 1), Q(17, 1), Q(300, 1)}
\* The deltas adjustZoomSpeed() is probed with in every state.
Adjustments == {Q(-10, 1), Q(-3, 100), Zero, Q(3, 100), Q(10, 1)}

\* ------------------------------------------------------------------ state

VARIABLES
    state,        \* the `state` object of main.js
    images,       \* the Image objects of state.images: "pending", "loaded", "failed"
    now,          \* the last reading of performance.now(), in ms
    hidden,       \* document.hidden
    matches,      \* matchMedia('(prefers-reduced-motion: reduce)').matches
    win,          \* <<window.innerWidth, window.innerHeight>>
    listening,    \* initEventListeners() has registered the handlers
    rafPending,   \* callbacks requestAnimationFrame has scheduled and not yet run
    touch,        \* lastTouchY, lastPinchDist of initTouchEvents()
    canvas,       \* the drawing operations of the last rendered frame
    recycleLog,   \* the stacks the recycle loop of the last update() went through
    fallback,     \* the reduced-motion fallback is shown
    callback,     \* how the last call of animate() ended
    resumeAt,     \* the instant of a resume no tick has followed yet, or -1
    elapsed,      \* now - state.lastTime in ms, as the last update's animate() read it
    ticks,        \* animation callbacks that passed the gate
    inputs,       \* user and environment events so far
    probe         \* arguments and result of a function taken on its own (<<>> in Spec)

vars == <<state, images, now, hidden, matches, win, listening, rafPending, touch,
          canvas, recycleLog, fallback, callback, resumeAt, elapsed, ticks, inputs,
          probe>>

\* --------------------------------------------------------------- the layers

Layer(i, s) == [imageIndex |-> i, scale |-> s]

Last(seq) == seq[Len(seq)]
Front(seq) == SubSeq(seq, 1, Len(seq) - 1)

\* Array.prototype.sort((a, b) => a.scale - b.scale): stable, ascending.
RECURSIVE SortByScale(_)
SortByScale(ls) ==
    IF Len(ls) <= 1 THEN ls
    ELSE LET done == SortByScale(Front(ls))
             x    == Last(ls)
             k    == Cardinality({i \in 1..Len(done) : ~QLess(x.scale, done[i].scale)})
         IN  SubSeq(done, 1, k) \o <<x>> \o SubSeq(done, k + 1, Len(done))

\* initLayers() with the exponent i for L - 1 - i: the front is created first.
InitLayersFrontFirst(L, R, S, N) ==
    SortByScale([i \in 1..L |-> Layer((i - 1) % N, QMul(R, MathPow(S, i - 1)))])

\* initLayers(): L layers, layer i at R * S^(L-1-i) with image i % N, sorted.
InitLayers(L, R, S, N) ==
    SortByScale([i \in 1..L |-> Layer((i - 1) % N, QMul(R, MathPow(S, L - i)))])

\* layer.scale += zoomFactor - 1 for layer.scale *= zoomFactor.
GrowLayersAdditive(ls, zoomFactor) ==
    [i \in 1..Len(ls) |-> Layer(ls[i].imageIndex,
                                QAdd(ls[i].scale, QSub(zoomFactor, Q(1, 1))))]

\* layers.forEach(layer => layer.scale *= zoomFactor)
GrowLayers(ls, zoomFactor) ==
    [i \in 1..Len(ls) |-> Layer(ls[i].imageIndex, QMul(ls[i].scale, zoomFactor))]

\* recycleFrontLayer() that pops and forgets to unshift.
RecyclePopOnly(ls, S, N) == Front(ls)

\* recycleFrontLayer() that pushes the new layer at the front (push for unshift).
RecyclePush(ls, S, N) ==
    LET rest == Front(ls)
    IN  IF rest = <<>> THEN rest
        ELSE rest \o <<Layer((rest[1].imageIndex - 1 + N) % N, QMul(rest[1].scale, S))>>

\* recycleFrontLayer() that derives the new scale from the popped front layer.
RecycleFromFront(ls, S, N) ==
    LET rest == Front(ls)
    IN  IF rest = <<>> THEN rest
        ELSE <<Layer((rest[1].imageIndex - 1 + N) % N, QMul(Last(ls).scale, S))>> \o rest

\* recycleFrontLayer() with (backLayer.imageIndex - 1) % count: the remainder
\* of JavaScript keeps the sign of the dividend.
RecycleNoWrap(ls, S, N) ==
    LET rest == Front(ls)
        x    == IF rest = <<>> THEN 0 ELSE rest[1].imageIndex - 1
    IN  IF rest = <<>> THEN rest
        ELSE <<Layer(IF x < 0 THEN 0 - ((0 - x) % N) ELSE x % N, QMul(rest[1].scale, S))>>
             \o rest

\* recycleFrontLayer() that gives the new layer the back layer's own image.
RecycleSameImage(ls, S, N) ==
    LET rest == Front(ls)
    IN  IF rest = <<>> THEN rest
        ELSE <<Layer(rest[1].imageIndex, QMul(rest[1].scale, S))>> \o rest

\* recycleFrontLayer() that pops the two front layers for one new back layer.
RecyclePopsTwice(ls, S, N) ==
    LET rest == Front(Front(ls))
    IN  IF rest = <<>> THEN rest
        ELSE <<Layer((rest[1].imageIndex - 1 + N) % N, QMul(rest[1].scale, S))>> \o rest

\* recycleFrontLayer() that steps to the image after the back layer's.
RecycleNextImage(ls, S, N) ==
    LET rest == Front(ls)
    IN  IF rest = <<>> THEN rest
        ELSE <<Layer((rest[1].imageIndex + 1) % N, QMul(rest[1].scale, S))>> \o rest

\* recycleFrontLayer() that puts the popped layer back with a new scale and
\* the image it had.
RecycleKeepsFrontImage(ls, S, N) ==
    LET rest == Front(ls)
    IN  IF rest = <<>> THEN rest
        ELSE <<Layer(Last(ls).imageIndex, QMul(rest[1].scale, S))>> \o rest

\* recycleFrontLayer() with scale: initialScale for the new layer.
RecycleAtInitialScale(ls, S, N) ==
    LET rest == Front(ls)
    IN  IF rest = <<>> THEN rest
        ELSE <<Layer((rest[1].imageIndex - 1 + N) % N, S)>> \o rest

\* recycleFrontLayer() that starts the new layer at the scale initLayers()
\* gives the back layer, whatever the back layer has grown to.
RecycleRestartsScale(ls, S, N) ==
    LET rest == Front(ls)
    IN  IF rest = <<>> THEN rest
        ELSE <<Layer((rest[1].imageIndex - 1 + N) % N,
                     QMul(recycleScale, MathPow(S, visibleLayers - 1)))>> \o rest

\* recycleFrontLayer(): pop the front, unshift a new back layer derived from
\* the back layer that is left.  (With one layer the pop leaves nothing to
\* read and the call throws with the stack empty.)
RecycleFrontLayer(ls, S, N) ==
    LET rest == Front(ls)
    IN  IF rest = <<>> THEN rest
        ELSE <<Layer((rest[1].imageIndex - 1 + N) % N, QMul(rest[1].scale, S))>> \o rest

\* update() with `if` for `while`: at most one recycle in a call.
RecycleIf(ls, R, S, N) ==
    IF Len(ls) > 0 /\ QLess(R, Last(ls).scale)
    THEN <<ls, RecycleFrontLayer(ls, S, N)>>
    ELSE <<ls>>

\* The loop of update() with >= for >: a front at recycleScale is recycled.
RECURSIVE RecycleWhileInclusive(_, _, _, _)
RecycleWhileInclusive(ls, R, S, N) ==
    IF Len(ls) > 0 /\ QLeq(R, Last(ls).scale)
    THEN <<ls>> \o RecycleWhileInclusive(RecycleFrontLayer(ls, S, N), R, S, N)
    ELSE <<ls>>

\* The loop of update() run until the front is at or below the scale a layer
\* has right after its front was recycled (R * S for R).
RECURSIVE RecycleWhileLow(_, _, _, _)
RecycleWhileLow(ls, R, S, N) ==
    IF Len(ls) > 0 /\ QLess(QMul(R, S), Last(ls).scale)
    THEN <<ls>> \o RecycleWhileLow(RecycleFrontLayer(ls, S, N), R, S, N)
    ELSE <<ls>>

\* The while loop of update(): the stack before the loop and after each
\* iteration, in order.
RECURSIVE RecycleWhile(_, _, _, _)
RecycleWhile(ls, R, S, N) ==
    IF Len(ls) > 0 /\ QLess(R, Last(ls).scale)
    THEN <<ls>> \o RecycleWhile(RecycleFrontLayer(ls, S, N), R, S, N)
    ELSE <<ls>>

\* zoomFactor with the sign of the growth term wrong.
ZoomFactorMinus(zoomSpeed, deltaTime) == QSub(Q(1, 1), QMul(zoomSpeed, deltaTime))

ZoomFactor(zoomSpeed, deltaTime) == QAdd(Q(1, 1), QMul(zoomSpeed, deltaTime))

\* currentParallax += targetParallax * parallaxSmoothing: the difference to
\* the current value is left out.
SmoothNoDifference(current, target) == QAdd(current, QMul(target, parallaxSmoothing))

\* currentParallax += (targetParallax - currentParallax) * parallaxSmoothing
Smooth(current, target) == QAdd(current, QMul(QSub(target, current), parallaxSmoothing))

\* The stacks update() goes through: grown, then after each recycle.
Recycled(s) ==
    RecycleWhile(GrowLayers(s.layers, ZoomFactor(s.zoomSpeed, s.deltaTime)),
                 recycleScale, initialScale, ImageCount)

\* update()
update(s) ==
    [s EXCEPT
       !.layers = Last(Recycled(s)),
       !.totalZoom = QAdd(s.totalZoom, QMul(s.zoomSpeed, s.deltaTime)),
       !.currentRotation = IF rotationEnabled
                           THEN QAdd(s.currentRotation, QMul(rotationSpeed, s.deltaTime))
                           ELSE s.currentRotation,
       !.currentParallax = [x |-> Smooth(s.currentParallax.x, s.targetParallax.x),
                            y |-> Smooth(s.currentParallax.y, s.targetParallax.y)]]

\* ---------------------------------------------------------------- render

\* img.complete: true once the request has ended, loaded or broken.
Complete(img) == img # "pending"

\* size < 10 for size = diagonal * scale * 1.05, as scale < 10 / (diagonal * 1.05).
TooSmall(scale, diagonal) == QLess(scale, Q(1000, diagonal * 105))

\* The loop of render() from layer i on: a layer whose image is missing or
\* not complete, or too small, is skipped; drawImage of a broken image throws
\* InvalidStateError, which ends the frame.
RECURSIVE DrawLayers(_, _, _, _)
DrawLayers(ls, imgs, diagonal, i) ==
    IF i > Len(ls) THEN <<>>
    ELSE LET k == ls[i].imageIndex + 1
         IN  IF k \notin 1..Len(imgs) \/ ~Complete(imgs[k]) \/ TooSmall(ls[i].scale, diagonal)
             THEN DrawLayers(ls, imgs, diagonal, i + 1)
             ELSE IF imgs[k] = "failed"
             THEN <<[op |-> "InvalidStateError", layer |-> i, image |-> ls[i].imageIndex]>>
             ELSE <<[op |-> "drawImage", layer |-> i, image |-> ls[i].imageIndex]>>
                  \o DrawLayers(ls, imgs, diagonal, i + 1)

Clear == [op |-> "fillRect", layer |-> 0, image |-> -1]
Vignette == [op |-> "drawVignette", layer |-> 0, image |-> -1]

\* render(): the drawing operations of one frame, in order.
render(s, imgs) ==
    LET drawn == DrawLayers(s.layers, imgs,
                            MathSqrt(s.width * s.width + s.height * s.height), 1)
        threw == drawn # <<>> /\ Last(drawn).op = "InvalidStateError"
    IN  <<Clear>> \o drawn \o (IF enableVignette /\ ~threw THEN <<Vignette>> ELSE <<>>)

\* --------------------------------------------------------------- animate

\* A gate that forgets state.isPaused.
GateIgnoresPause(s) == ~s.isPlaying \/ ~s.allImagesLoaded

\* The gate of animate(): the callback returns here without doing anything.
Gate(s) == ~s.isPlaying \/ s.isPaused \/ ~s.allImagesLoaded

\* The clamp of deltaTime at 10 seconds for 0.1.
DeltaTimeClampedHigh(t, lastTime) == MathMin(Q(t - lastTime, 1000), Q(10, 1))

\* (now - state.lastTime) / 1000 without the clamp.
DeltaTimeUnclamped(t, lastTime) == Q(t - lastTime, 1000)

\* Math.min((now - state.lastTime) / 1000, 0.1)
DeltaTime(t, lastTime) == MathMin(Q(t - lastTime, 1000), Q(1, 10))

\* The state at the call of update() in animate(), t being performance.now().
Timed(s, t) == [s EXCEPT !.deltaTime = DeltaTime(t, s.lastTime), !.lastTime = t]

\* animate() that calls update() twice in one callback.
animateTwice(s, t) == IF Gate(s) THEN s ELSE update(update(Timed(s, t)))

\* animate() with performance.now() = t, up to render().
animate(s, t) == IF Gate(s) THEN s ELSE update(Timed(s, t))

\* What a call of animate() leaves besides the state: the frame, the stacks
\* of the recycle loop and the elapsed time it read.  r is the instant of a
\* resume no tick has followed yet, or -1.
AnimateCall(s, t, imgs, r) ==
    /\ state' = animate(s, t)
    /\ canvas' = IF Gate(s) THEN canvas ELSE render(state', imgs)
    /\ recycleLog' = IF Gate(s) THEN recycleLog ELSE Recycled(Timed(s, t))
    /\ elapsed' = IF Gate(s) THEN elapsed ELSE t - s.lastTime
    /\ callback' = IF Gate(s) THEN "gated" ELSE IF r >= 0 THEN "resumed" ELSE "ran"
    /\ resumeAt' = IF Gate(s) THEN r ELSE -1

\* A callback scheduled by requestAnimationFrame(animate) runs.
AnimationFrame ==
    /\ rafPending > 0
    /\ Gate(state) \/ ticks < MaxTicks
    /\ \E el \in FrameTimes :
         /\ now' = IF Gate(state) THEN now ELSE now + el
         /\ AnimateCall(state, now', images, resumeAt)
    /\ ticks' = IF Gate(state) THEN ticks ELSE ticks + 1
    /\ UNCHANGED <<images, hidden, matches, win, listening, rafPending, touch,
                   fallback, inputs, probe>>

\* --------------------------------------------------------------- loading

\* loadImages(): count more Image objects, each pending.
loadImages(imgs) == imgs \o [i \in 1..ImageCount |-> "pending"]

\* onAllImagesLoaded() up to its call of animate(), t being performance.now().
onAllImagesLoaded(s, t) ==
    [s EXCEPT !.allImagesLoaded = TRUE,
              !.layers = InitLayers(visibleLayers, recycleScale, initialScale, ImageCount),
              !.lastTime = t]

\* The requests of one loadImages() call end in the order they were made.
CanEnd(i) ==
    /\ images[i] = "pending"
    /\ IF (i - 1) % ImageCount = 0 THEN TRUE ELSE images[i - 1] # "pending"

\* The test of img.onload with >= for ===.
AllLoadedAtLeast(s) == s.imagesLoaded >= ImageCount

\* state.imagesLoaded === count
AllLoaded(s) == s.imagesLoaded = ImageCount

\* img.onload of image i.
ImageOnLoad(i) ==
    /\ CanEnd(i)
    /\ images' = [images EXCEPT ![i] = "loaded"]
    /\ LET s1 == [state EXCEPT !.imagesLoaded = @ + 1]
       IN  IF AllLoaded(s1)
           THEN /\ \E el \in IdleTimes : now' = now + el
                /\ AnimateCall(onAllImagesLoaded(s1, now'), now', images', -1)
                /\ rafPending' = rafPending + 1
           ELSE /\ state' = s1
                /\ UNCHANGED <<now, canvas, recycleLog, callback, resumeAt, elapsed, rafPending>>
    /\ UNCHANGED <<hidden, matches, win, listening, touch, fallback, ticks, inputs, probe>>

\* img.onerror of image i: the failure is logged.
ImageOnError(i) ==
    /\ CanEnd(i)
    /\ i \in Unreliable
    /\ images' = [images EXCEPT ![i] = "failed"]
    /\ UNCHANGED <<state, now, hidden, matches, win, listening, rafPending, touch,
                   canvas, recycleLog, fallback, callback, resumeAt, elapsed, ticks, inputs, probe>>

\* -------------------------------------------------------------- handlers

\* adjustZoomSpeed(delta) without the lower clamp.
adjustZoomSpeedNoFloor(s, delta) ==
    [s EXCEPT !.zoomSpeed = MathMin(maxSpeed, QAdd(s.zoomSpeed, delta))]

\* adjustZoomSpeed(delta)
adjustZoomSpeed(s, delta) ==
    [s EXCEPT !.zoomSpeed = MathMax(minSpeed, MathMin(maxSpeed, QAdd(s.zoomSpeed, delta)))]

\* The target of onMouseMove and of a one-finger touchmove.
Target(s, clientX, clientY) ==
    [x |-> QMul(QSub(Q(clientX, s.width), Q(1, 2)), parallaxIntensity),
     y |-> QMul(QSub(Q(clientY, s.height), Q(1, 2)), parallaxIntensity)]

\* onMouseMove(e) that moves the current parallax to the target at once.
onMouseMoveSnaps(s, clientX, clientY) ==
    [s EXCEPT !.targetParallax = Target(s, clientX, clientY),
              !.currentParallax = Target(s, clientX, clientY)]

\* onMouseMove(e)
onMouseMove(s, clientX, clientY) == [s EXCEPT !.targetParallax = Target(s, clientX, clientY)]

\* onWheel(e)
onWheel(s, deltaY) == adjustZoomSpeed(s, QMul(Q(0 - deltaY, 1), scrollSensitivity))

\* togglePause() that leaves state.lastTime alone when it ends a pause.
togglePauseKeepsLastTime(s, t) == [s EXCEPT !.isPaused = ~s.isPaused]

\* togglePause(), t being performance.now()
togglePause(s, t) ==
    IF s.isPaused THEN [s EXCEPT !.isPaused = FALSE, !.lastTime = t]
    ELSE [s EXCEPT !.isPaused = TRUE]

\* toggleAudio()
toggleAudio(s) ==
    IF s.isMuted THEN [s EXCEPT !.isMuted = FALSE, !.audioStarted = TRUE]
    ELSE [s EXCEPT !.isMuted = TRUE]

\* onKeyDown(e)
onKeyDown(s, code, t) ==
    CASE code = "Space" -> togglePause(s, t)
      [] code = "ArrowUp" -> adjustZoomSpeed(s, Q(3, 100))
      [] code = "ArrowDown" -> adjustZoomSpeed(s, Q(-3, 100))
      [] code = "KeyM" -> toggleAudio(s)
      [] OTHER -> s

\* onVisibilityChange() with document.hidden = hid, t being performance.now()
onVisibilityChange(s, hid, t) ==
    IF hid
    THEN [s EXCEPT !.wasPlaying = IF s.isPlaying THEN "true" ELSE "false",
                   !.isPlaying = FALSE]
    ELSE [s EXCEPT !.isPlaying = (s.wasPlaying # "false"), !.lastTime = t]

\* showReducedMotionFallback(), hideReducedMotionFallback()
showReducedMotionFallback(s) == [s EXCEPT !.isPlaying = FALSE]
hideReducedMotionFallback(s) == [s EXCEPT !.isPlaying = TRUE]

\* onReducedMotionChange(e) with e.matches = m
onReducedMotionChange(s, m) ==
    IF m THEN showReducedMotionFallback([s EXCEPT !.reducedMotion = TRUE])
    ELSE hideReducedMotionFallback([s EXCEPT !.reducedMotion = FALSE])

\* enableAnimation() apart from its call of loadImages(), t being performance.now()
enableAnimation(s, t) ==
    LET s1 == hideReducedMotionFallback([s EXCEPT !.reducedMotion = FALSE])
    IN  IF ~s1.allImagesLoaded THEN s1
        ELSE [s1 EXCEPT !.isPlaying = TRUE, !.lastTime = t]

\* resizeCanvas()
resizeCanvas(s, w) == [s EXCEPT !.width = w[1], !.height = w[2]]

\* getTouchDistance(touches)
getTouchDistance(tl) ==
    MathSqrt((tl[1][1] - tl[2][1]) * (tl[1][1] - tl[2][1])
             + (tl[1][2] - tl[2][2]) * (tl[1][2] - tl[2][2]))

\* The touchstart listener of initTouchEvents(): the closure's two variables.
touchStart(tc, tl) ==
    IF Len(tl) = 1 THEN [tc EXCEPT !.lastTouchY = tl[1][2]]
    ELSE IF Len(tl) = 2 THEN [tc EXCEPT !.lastPinchDist = getTouchDistance(tl)]
    ELSE tc

\* The touchmove listener: the state it leaves ...
touchMoveState(s, tc, tl) ==
    IF Len(tl) = 1
    THEN LET s1 == [s EXCEPT !.targetParallax = Target(s, tl[1][1], tl[1][2])]
             deltaY == tc.lastTouchY - tl[1][2]
         IN  IF Abs(deltaY) > 5 THEN adjustZoomSpeed(s1, QMul(Q(deltaY, 1), Q(8, 10000)))
             ELSE s1
    ELSE IF Len(tl) = 2
    THEN adjustZoomSpeed(s, QMul(Q(getTouchDistance(tl) - tc.lastPinchDist, 1), Q(2, 1000)))
    ELSE s

\* ... and the closure's two variables.
touchMoveClosure(tc, tl) ==
    IF Len(tl) = 1
    THEN IF Abs(tc.lastTouchY - tl[1][2]) > 5 THEN [tc EXCEPT !.lastTouchY = tl[1][2]] ELSE tc
    ELSE IF Len(tl) = 2 THEN [tc EXCEPT !.lastPinchDist = getTouchDistance(tl)]
    ELSE tc

\* ------------------------------------------------------------ the events

\* An event reaches a registered listener; this one leaves the clock, the
\* frame and the loop alone.
Input ==
    /\ listening
    /\ inputs < MaxInputs
    /\ inputs' = inputs + 1

Quiet == UNCHANGED <<images, now, hidden, matches, win, listening, rafPending, touch,
                     canvas, recycleLog, fallback, callback, resumeAt, elapsed, ticks, probe>>

Wheel ==
    /\ Input
    /\ \E deltaY \in WheelDeltas : state' = onWheel(state, deltaY)
    /\ Quiet

MouseMove ==
    /\ Input
    /\ \E p \in {<<0, win[2]>>} :
         state' = onMouseMove(state, p[1], p[2])
    /\ Quiet

\* A keydown; Space that ends a pause reads the clock.
KeyDown ==
    /\ Input
    /\ \E code \in KeyCodes, el \in IdleTimes :
         LET resumes == code = "Space" /\ state.isPaused
         IN  /\ now' = IF resumes THEN now + el ELSE now
             /\ state' = onKeyDown(state, code, now')
             /\ resumeAt' = IF resumes THEN now' ELSE resumeAt
    /\ UNCHANGED <<images, hidden, matches, win, listening, rafPending, touch,
                   canvas, recycleLog, fallback, callback, elapsed, ticks, probe>>

\* The click on the audio button.
AudioClick ==
    /\ Input
    /\ state' = toggleAudio(state)
    /\ Quiet

\* visibilitychange: the tab is hidden, or shown again.
VisibilityChange ==
    /\ Input
    /\ hidden' = ~hidden
    /\ \E el \in IdleTimes :
         /\ now' = IF hidden' THEN now ELSE now + el
         /\ state' = onVisibilityChange(state, hidden', now')
         /\ resumeAt' = IF hidden' THEN resumeAt ELSE now'
    /\ UNCHANGED <<images, matches, win, listening, rafPending, touch,
                   canvas, recycleLog, fallback, callback, elapsed, ticks, probe>>

\* The reduced-motion preference changes.  The change back comes after the
\* time the preference was on, as the other resumes come after their pause;
\* the handler does not read the clock.
ReducedMotionChange ==
    /\ Input
    /\ matches' = ~matches
    /\ \E el \in IdleTimes : now' = IF matches' THEN now ELSE now + el
    /\ state' = onReducedMotionChange(state, matches')
    /\ fallback' = matches'
    /\ UNCHANGED <<images, hidden, win, listening, rafPending, touch,
                   canvas, recycleLog, callback, resumeAt, elapsed, ticks, probe>>

\* The click on the fallback's enable-animation button.
EnableClick ==
    /\ Input
    /\ fallback
    /\ \E el \in IdleTimes :
         /\ now' = IF state.allImagesLoaded THEN now + el ELSE now
         /\ state' = enableAnimation(state, now')
         /\ resumeAt' = IF state.allImagesLoaded THEN now' ELSE resumeAt
    /\ images' = IF state.allImagesLoaded THEN images ELSE loadImages(images)
    /\ fallback' = FALSE
    /\ UNCHANGED <<hidden, matches, win, listening, rafPending, touch,
                   canvas, recycleLog, callback, elapsed, ticks, probe>>

\* The window is resized.
Resize ==
    /\ Input
    /\ \E w \in WindowSizes \ {win} :
         /\ win' = w
         /\ state' = resizeCanvas(state, w)
    /\ UNCHANGED <<images, now, hidden, matches, listening, rafPending, touch,
                   canvas, recycleLog, fallback, callback, resumeAt, elapsed, ticks, probe>>

TouchStart ==
    /\ Input
    /\ \E tl \in TouchLists : touch' = touchStart(touch, tl)
    /\ UNCHANGED <<state, images, now, hidden, matches, win, listening, rafPending,
                   canvas, recycleLog, fallback, callback, resumeAt, elapsed, ticks, probe>>

TouchMove ==
    /\ Input
    /\ \E tl \in TouchLists :
         /\ state' = touchMoveState(state, touch, tl)
         /\ touch' = touchMoveClosure(touch, tl)
    /\ UNCHANGED <<images, now, hidden, matches, win, listening, rafPending,
                   canvas, recycleLog, fallback, callback, resumeAt, elapsed, ticks, probe>>

\* ------------------------------------------------------- the specification

\* The `state` literal of main.js.
State0 ==
    [width |-> 0, height |-> 0,
     imagesLoaded |-> 0, allImagesLoaded |-> FALSE,
     layers |-> <<>>,
     isPlaying |-> TRUE, isPaused |-> FALSE, wasPlaying |-> "undefined",
     lastTime |-> 0, deltaTime |-> Zero,
     zoomSpeed |-> baseSpeed, totalZoom |-> Zero,
     currentRotation |-> Zero,
     targetParallax |-> [x |-> Zero, y |-> Zero],
     currentParallax |-> [x |-> Zero, y |-> Zero],
     audioStarted |-> FALSE, isMuted |-> TRUE,
     reducedMotion |-> FALSE]

\* The state init() leaves: with reduced motion preferred it shows the
\* fallback and returns before anything is loaded or registered.
Init ==
    /\ matches \in BOOLEAN
    /\ win = <<800, 600>>
    /\ state = IF matches
               THEN showReducedMotionFallback([State0 EXCEPT !.reducedMotion = TRUE])
               ELSE resizeCanvas(State0, win)
    /\ images = IF matches THEN <<>> ELSE loadImages(<<>>)
    /\ listening = ~matches
    /\ fallback = matches
    /\ now = 0
    /\ hidden = FALSE
    /\ rafPending = 0
    /\ touch = [lastTouchY |-> 0, lastPinchDist |-> 0]
    /\ canvas = <<>>
    /\ recycleLog = <<>>
    /\ callback = "none"
    /\ resumeAt = -1
    /\ elapsed = 0
    /\ ticks = 0
    /\ inputs = 0
    /\ probe = <<>>

Next ==
    \/ \E i \in 1..Len(images) : ImageOnLoad(i)
    \/ \E i \in 1..Len(images) : ImageOnError(i)
    \/ AnimationFrame
    \/ Wheel
    \/ MouseMove
    \/ KeyDown
    \/ AudioClick
    \/ VisibilityChange
    \/ ReducedMotionChange
    \/ EnableClick
    \/ Resize
    \/ TouchStart
    \/ TouchMove

Spec == Init /\ [][Next]_vars

\* ---------------------------------------------- update() taken on its own

\* The state onAllImagesLoaded() leaves with every image loaded, before the
\* first callback.
InitU ==
    /\ matches = FALSE
    /\ win = <<800, 600>>
    /\ images = [i \in 1..ImageCount |-> "loaded"]
    /\ now = 0
    /\ state = onAllImagesLoaded([resizeCanvas(State0, win) EXCEPT !.imagesLoaded = ImageCount],
                                 now)
    /\ listening = TRUE
    /\ fallback = FALSE
    /\ hidden = FALSE
    /\ rafPending = 1
    /\ touch = [lastTouchY |-> 0, lastPinchDist |-> 0]
    /\ canvas = <<>>
    /\ recycleLog = <<>>
    /\ callback = "none"
    /\ resumeAt = -1
    /\ elapsed = 0
    /\ ticks = 0
    /\ inputs = 0
    /\ probe = <<>>

\* update() and render() on a state with the drawn zoomSpeed and deltaTime.
UpdateCall ==
    /\ ticks < MaxTicks
    /\ \E zoomSpeed \in Speeds, deltaTime \in Steps :
         LET s == [state EXCEPT !.zoomSpeed = zoomSpeed, !.deltaTime = deltaTime]
         IN  /\ state' = update(s)
             /\ recycleLog' = Recycled(s)
             /\ canvas' = render(state', images)
    /\ callback' = "ran"
    /\ ticks' = ticks + 1
    /\ UNCHANGED <<images, now, hidden, matches, win, listening, rafPending, touch,
                   fallback, resumeAt, elapsed, inputs, probe>>

NextU == UpdateCall

SpecU == InitU /\ [][NextU]_vars

\* ---------------------------------------------------------------- claims

\* The iterations of the recycle loop in the last update: iteration k took the
\* stack recycleLog[k] to recycleLog[k + 1].
Iterations == 1..(Len(recycleLog) - 1)

\* C1: once the stack has been initialised it holds exactly visibleLayers
\* layers after every tick, and before and after every iteration of the
\* recycle loop inside a tick.
StackSize ==
    state.allImagesLoaded =>
        /\ Len(state.layers) = visibleLayers
        /\ \A k \in 1..Len(recycleLog) : Len(recycleLog[k]) = visibleLayers

\* A tick has recycled a layer.
StackSizeWitness == state.allImagesLoaded /\ ticks > 0 /\ Len(recycleLog) >= 2

Ascending(ls) == \A i \in 1..(Len(ls) - 1) : QLeq(ls[i].scale, ls[i + 1].scale)

\* C2: after initialisation and after every tick the layers are in ascending
\* order of scale from index 0 (back) to the last (front); growth and every
\* recycle iteration keep the order.
ScaleOrder ==
    /\ Ascending(state.layers)
    /\ \A k \in 1..Len(recycleLog) : Ascending(recycleLog[k])

\* One update has recycled twice, and the stack is back in order.
ScaleOrderWitness ==
    /\ Len(recycleLog) >= 3
    /\ QLess(state.layers[1].scale, state.layers[visibleLayers].scale)

\* C3: at the end of update() no layer has a scale greater than recycleScale,
\* also when several layers crossed the threshold in the same call.
NoLayerAboveRecycle ==
    \A i \in 1..Len(state.layers) : QLeq(state.layers[i].scale, recycleScale)

\* Three layers were past recycleScale after the growth of one update.
NoLayerAboveRecycleWitness ==
    /\ ticks > 0
    /\ Cardinality({i \in 1..visibleLayers : QLess(recycleScale, recycleLog[1][i].scale)}) >= 3

\* C4: one recycle iteration removes exactly the front layer and inserts at
\* index 0 a layer with imageIndex (b.imageIndex - 1 + N) mod N and scale
\* b.scale * initialScale, b being the back layer; every other layer keeps
\* its imageIndex, its scale and its place relative to the others.
RecycleStep ==
    \A k \in Iterations :
        LET a == recycleLog[k]
            b == recycleLog[k + 1]
        IN  /\ Len(b) = Len(a)
            /\ \A i \in 2..Len(b) : b[i] = a[i - 1]
            /\ b[1].imageIndex = (a[1].imageIndex - 1 + ImageCount) % ImageCount
            /\ b[1].scale = QMul(a[1].scale, initialScale)

\* An update recycled, from a stack whose front and back layers differ.
RecycleStepWitness ==
    /\ Len(recycleLog) >= 2
    /\ recycleLog[1][1].scale # recycleLog[1][visibleLayers].scale
    /\ recycleLog[2][visibleLayers] = recycleLog[1][visibleLayers - 1]

\* C5: every layer's imageIndex is an integer in [0, N), and recycling a stack
\* whose back layer has imageIndex 0 gives the new back layer N - 1 (7 for
\* N = 8).
ImageIndexRange ==
    /\ \A i \in 1..Len(state.layers) : state.layers[i].imageIndex \in 0..(ImageCount - 1)
    /\ \A k \in 1..Len(recycleLog) : \A i \in 1..Len(recycleLog[k]) :
           recycleLog[k][i].imageIndex \in 0..(ImageCount - 1)
    /\ \A k \in Iterations :
           recycleLog[k][1].imageIndex = 0 => recycleLog[k + 1][1].imageIndex = ImageCount - 1

\* A stack with image 0 at the back was recycled and has image 7 at the back.
ImageIndexWitness ==
    /\ Len(recycleLog) >= 2
    /\ recycleLog[1][1].imageIndex = 0
    /\ state.layers[1].imageIndex = 7

InRange(zoomSpeed) == QLeq(minSpeed, zoomSpeed) /\ QLeq(zoomSpeed, maxSpeed)

\* C6: zoomSpeed lies in [minSpeed, maxSpeed] in every state, whatever wheel,
\* key, drag and pinch adjustments were made; an adjustment by -10 leaves it
\* exactly at minSpeed and one by +10 exactly at maxSpeed.
SpeedClamp ==
    /\ InRange(state.zoomSpeed)
    /\ \A delta \in Adjustments : InRange(adjustZoomSpeed(state, delta).zoomSpeed)
    /\ adjustZoomSpeed(state, Q(-10, 1)).zoomSpeed = minSpeed
    /\ adjustZoomSpeed(state, Q(10, 1)).zoomSpeed = maxSpeed

\* Two adjustments: one that overshot the top and one that overshot the bottom.
SpeedClampWitness == inputs >= 2 /\ state.zoomSpeed = minSpeed /\ touch.lastPinchDist > 0

\* C7: the deltaTime an update uses is min(elapsed seconds, 0.1): it lies in
\* [0, 0.1], and 5 seconds elapsed between two ticks count as 0.1.
DeltaTimeClamp ==
    /\ state.deltaTime = IF elapsed >= 100 THEN Q(1, 10) ELSE Q(elapsed, 1000)
    /\ QLeq(Zero, state.deltaTime)
    /\ QLeq(state.deltaTime, Q(1, 10))
    /\ elapsed = 5000 => state.deltaTime = Q(1, 10)

\* A tick came 5 seconds after the one before.
DeltaTimeClampWitness == ticks >= 2 /\ callback = "ran" /\ elapsed = 5000

\* C8: an animation callback that fires while isPaused is true, isPlaying is
\* false or allImagesLoaded is false changes no animation state and draws
\* nothing; all it does is schedule the next callback.
GatedCallbackFrozen ==
    [][(AnimationFrame /\ (state.isPaused \/ ~state.isPlaying \/ ~state.allImagesLoaded))
         => /\ state' = state
            /\ canvas' = canvas
            /\ recycleLog' = recycleLog
            /\ rafPending' = rafPending]_vars

\* A callback fired during a pause that followed a tick.
GatedCallbackWitness == ticks > 0 /\ callback = "gated" /\ state.isPaused

\* C9: when the animation resumes from a Space pause or from a hidden tab,
\* lastTime is set to the resume instant, and the first tick after the resume
\* computes deltaTime from that instant.
ResumeResetsLastTime ==
    [][/\ ((state.isPaused /\ ~state'.isPaused) \/ (hidden /\ ~hidden'))
          => state'.lastTime = now'
       /\ (resumeAt >= 0 /\ ticks' # ticks)
          => /\ elapsed' = now' - resumeAt
             /\ state'.deltaTime = IF now' - resumeAt >= 100 THEN Q(1, 10)
                                   ELSE Q(now' - resumeAt, 1000)]_vars

\* The tab was hidden and shown again, and a tick followed.
ResumeWitness == callback = "resumed" /\ state.wasPlaying = "true" /\ ~hidden /\ ticks > 0

\* C10: an image whose load fails does not halt the animation: once the
\* requests of the page load have all ended, one of them in failure, the loop
\* has been started.
FailedImageStillStarts ==
    (/\ Len(images) = ImageCount
     /\ \A i \in 1..Len(images) : images[i] # "pending"
     /\ \E i \in 1..Len(images) : images[i] = "failed")
    => state.allImagesLoaded /\ rafPending > 0

\* Math.sqrt(w * w + h * h) of render() for the canvas of state s.
Diagonal(s) == MathSqrt(s.width * s.width + s.height * s.height)

\* C11: in a frame a layer whose image is not complete is skipped without an
\* error, and a layer whose image is complete and whose size is at least 10
\* is drawn.
FrameDrawsCompleteImages ==
    [][ticks' # ticks =>
         /\ \A j \in 1..Len(canvas') : canvas'[j].op # "InvalidStateError"
         /\ \A i \in 1..Len(state'.layers) :
              LET k == state'.layers[i].imageIndex + 1
                  drawn == \E j \in 1..Len(canvas') :
                               canvas'[j] = [op |-> "drawImage", layer |-> i,
                                             image |-> state'.layers[i].imageIndex]
              IN  IF images'[k] = "pending" THEN ~drawn
                  ELSE ~TooSmall(state'.layers[i].scale, Diagonal(state')) => drawn]_vars

\* C12: in every animation callback that passes the gate update() runs once
\* and then render() runs once on the state update() left, nothing in
\* between; the stack render() reads has visibleLayers layers and a front
\* scale of at most recycleScale.
UpdateThenRender ==
    [][ticks' # ticks =>
         /\ state' = update(Timed(state, now'))
         /\ canvas' = render(state', images')
         /\ Len(state'.layers) = visibleLayers
         /\ QLeq(Last(state'.layers).scale, recycleScale)]_vars

\* A tick recycled a layer and drew a frame with an image in it.
UpdateThenRenderWitness ==
    /\ ticks > 0
    /\ callback = "ran"
    /\ Len(recycleLog) = 2
    /\ \E j \in 1..Len(canvas) : canvas[j].op = "drawImage"

\* C13: from its creation until it is recycled a layer's scale never
\* decreases from one tick to the next, and a recycle never lowers the scale
\* of a layer that stays in the stack.  (A tick with k recycles moves the
\* layer at index i to index i + k.)
ScaleNeverDecreases ==
    [][ticks' # ticks =>
         LET k == Len(recycleLog') - 1
         IN  /\ \A i \in 1..(Len(state.layers) - k) :
                  /\ state'.layers[i + k].imageIndex = state.layers[i].imageIndex
                  /\ QLeq(state.layers[i].scale, state'.layers[i + k].scale)
             /\ \A n \in 1..k : \A i \in 1..(Len(recycleLog'[n]) - 1) :
                  QLeq(recycleLog'[n][i].scale, recycleLog'[n + 1][i + 1].scale)]_vars

\* The first update recycled twice: the layer created at the back (image 0,
\* scale 0.0625) is now third from the back, and larger.
ScaleNeverDecreasesWitness ==
    /\ ticks = 1
    /\ Len(recycleLog) = 3
    /\ state.layers[3].imageIndex = 0
    /\ QLess(Q(625, 10000), state.layers[3].scale)

\* ------------------------------------------------------- the endless run

\* The running animation at zoomSpeed 0.8.
InitL ==
    /\ matches = FALSE
    /\ win = <<800, 600>>
    /\ images = [i \in 1..ImageCount |-> "loaded"]
    /\ now = 0
    /\ state = [onAllImagesLoaded([resizeCanvas(State0, win) EXCEPT !.imagesLoaded = ImageCount],
                                  now)
                EXCEPT !.zoomSpeed = maxSpeed]
    /\ listening = TRUE
    /\ fallback = FALSE
    /\ hidden = FALSE
    /\ rafPending = 1
    /\ touch = [lastTouchY |-> 0, lastPinchDist |-> 0]
    /\ canvas = <<>>
    /\ recycleLog = <<>>
    /\ callback = "none"
    /\ resumeAt = -1
    /\ elapsed = 0
    /\ ticks = 0
    /\ inputs = 0
    /\ probe = <<>>

\* What a callback that passes the gate does to the layers and the frame,
\* with state.deltaTime = deltaTime.  totalZoom and currentRotation grow
\* without bound and nothing feeds them back into the layers: they, the
\* parallax and the clock are left as they are, so that the run has finitely
\* many states.
LayersTick(deltaTime) ==
    /\ ~Gate(state)
    /\ LET s == [state EXCEPT !.deltaTime = deltaTime]
       IN  /\ state' = [s EXCEPT !.layers = Last(Recycled(s))]
           /\ recycleLog' = Recycled(s)
           /\ canvas' = render(state', images)
    /\ callback' = "ran"
    /\ UNCHANGED <<images, now, hidden, matches, win, listening, rafPending, touch,
                   fallback, resumeAt, elapsed, ticks, inputs, probe>>

\* A tick with dt > 0.
GrowTick == \E deltaTime \in LiveSteps \ {Zero} : LayersTick(deltaTime)

\* A tick with dt = 0.
IdleTick == LayersTick(Zero)

\* A callback that stops at the gate.
GatedTick ==
    /\ Gate(state)
    /\ callback' = "gated"
    /\ UNCHANGED <<state, images, now, hidden, matches, win, listening, rafPending, touch,
                   canvas, recycleLog, fallback, resumeAt, elapsed, ticks, inputs, probe>>

\* Space.
PauseKey ==
    /\ state' = togglePause(state, now)
    /\ UNCHANGED <<images, now, hidden, matches, win, listening, rafPending, touch,
                   canvas, recycleLog, fallback, callback, resumeAt, elapsed, ticks, inputs,
                   probe>>

NextL == GrowTick \/ IdleTick \/ GatedTick \/ PauseKey

SpecL == InitL /\ [][NextL]_vars

\* Ticks with dt > 0 pass the gate again and again: callbacks keep running,
\* every pause ends, and time passes between callbacks.
KeepsRunning == []<><<GrowTick>>_vars

\* C14: while ticks pass the gate with dt > 0 again and again, a recycle
\* happens again and again, each recycle gives the new back layer the image
\* index one less (modulo N) than the back layer's, and every index in [0, N)
\* is the back layer's image again and again.
ImagesCycle ==
    KeepsRunning =>
    /\ []<>(Len(recycleLog) >= 2)
    /\ \A index \in 0..(ImageCount - 1) : []<>(state.layers[1].imageIndex = index)
    /\ [](\A k \in Iterations :
             recycleLog[k + 1][1].imageIndex
                 = (recycleLog[k][1].imageIndex + ImageCount - 1) % ImageCount)

\* The back layer's image has gone from 0 down through 7 to 4.
ImagesCycleWitness ==
    /\ state.layers[1].imageIndex = 4
    /\ Len(recycleLog) >= 2
    /\ ~state.isPaused

\* --------------------------------------------- initLayers() taken on its own

\* The page outside the function under examination: nothing loaded, nothing
\* registered.
Idle ==
    /\ matches = FALSE
    /\ win = <<800, 600>>
    /\ images = <<>>
    /\ now = 0
    /\ state = State0
    /\ listening = FALSE
    /\ fallback = FALSE
    /\ hidden = FALSE
    /\ rafPending = 0
    /\ touch = [lastTouchY |-> 0, lastPinchDist |-> 0]
    /\ canvas = <<>>
    /\ recycleLog = <<>>
    /\ callback = "none"
    /\ resumeAt = -1
    /\ elapsed = 0
    /\ ticks = 0
    /\ inputs = 0

IdleUnchanged ==
    UNCHANGED <<state, images, now, hidden, matches, win, listening, rafPending, touch,
                canvas, recycleLog, fallback, callback, resumeAt, elapsed, ticks, inputs>>

InitI ==
    /\ Idle
    /\ probe \in [L : LayerCounts, R : RecycleScales, S : InitialScales, N : ImageCounts,
                  layers : {<<>>}]

\* initLayers() with the drawn configuration.
InitLayersCall ==
    /\ probe.layers = <<>>
    /\ probe' = [probe EXCEPT !.layers = InitLayers(probe.L, probe.R, probe.S, probe.N)]
    /\ IdleUnchanged

NextI == InitLayersCall

SpecI == InitI /\ [][NextI]_vars

\* C15: initLayers with visibleLayers = L, recycleScale = R, initialScale = S
\* (0 < S < 1) and N images gives L layers in ascending order of scale, the
\* front at R and every other layer at S times the scale of the next (that is
\* scale[i] = R * S^(L-1-i)), with imageIndex[i] = i mod N; for L = 4, R = 4,
\* S = 0.25, N = 8 the scales are [0.0625, 0.25, 1, 4] and the indices
\* [0, 1, 2, 3].
InitLayersShape ==
    probe.layers # <<>> =>
        /\ Len(probe.layers) = probe.L
        /\ probe.layers[probe.L].scale = probe.R
        /\ \A i \in 1..(probe.L - 1) :
             /\ probe.layers[i].scale = QMul(probe.layers[i + 1].scale, probe.S)
             /\ QLess(probe.layers[i].scale, probe.layers[i + 1].scale)
        /\ \A i \in 1..probe.L : probe.layers[i].imageIndex = (i - 1) % probe.N
        /\ (probe.L = 4 /\ probe.R = Q(4, 1) /\ probe.S = Q(25, 100) /\ probe.N = 8)
           => probe.layers = <<Layer(0, Q(625, 10000)), Layer(1, Q(25, 100)),
                               Layer(2, Q(1, 1)), Layer(3, Q(4, 1))>>

\* initLayers() has run with L = 6 and N = 2: the images repeat in the stack.
InitLayersWitness ==
    /\ probe.layers # <<>>
    /\ probe.L = 6
    /\ probe.N = 2
    /\ probe.layers[5].imageIndex = 0

\* ------------------------------------------------ update() on given values

InitialStack ==
    <<Layer(0, Q(625, 10000)), Layer(1, Q(25, 100)), Layer(2, Q(1, 1)), Layer(3, Q(4, 1))>>

\* C16: from the initial stack (scales [0.0625, 0.25, 1, 4], indices
\* [0, 1, 2, 3], 8 images) one update with zoomSpeed = 0.15 and dt = 1.0
\* recycles exactly once and leaves, back to front, the scales
\* [0.01796875, 0.071875, 0.2875, 1.15] with the indices [7, 0, 1, 2].
FirstUpdateScenario ==
    [][(/\ ticks' # ticks
        /\ state.layers = InitialStack
        /\ state'.zoomSpeed = Q(15, 100)
        /\ state'.deltaTime = Q(1, 1))
       => /\ Len(recycleLog') = 2
          /\ state'.layers = <<Layer(7, Q(1796875, 100000000)), Layer(0, Q(71875, 1000000)),
                               Layer(1, Q(2875, 10000)), Layer(2, Q(115, 100))>>]_vars

\* The first update ran with zoomSpeed = 0.15 and dt = 1.0.
FirstUpdateWitness ==
    /\ ticks = 1
    /\ state.zoomSpeed = Q(15, 100)
    /\ state.deltaTime = Q(1, 1)
    /\ recycleLog[1][visibleLayers].scale = Q(46, 10)
    /\ state.layers[1].imageIndex = 7

\* C17: with recycleScale = 4 and initialScale = 0.25 the recycle loop entered
\* with the front layer at 4.5 recycles exactly once, and in general a front
\* scale in (recycleScale, recycleScale / initialScale] at the loop's entry
\* makes exactly one pop and push.
OneRecyclePerExcess ==
    [][ticks' # ticks =>
         LET front == Last(recycleLog'[1]).scale
         IN  /\ front = Q(45, 10) => Len(recycleLog') = 2
             /\ (QLess(Q(4, 1), front) /\ QLeq(QMul(front, Q(25, 100)), Q(4, 1)))
                => Len(recycleLog') = 2]_vars

\* The loop was entered with the front layer at 4.5.
OneRecycleWitness ==
    /\ ticks > 0
    /\ Last(recycleLog[1]).scale = Q(45, 10)
    /\ Last(state.layers).scale = Q(1125, 1000)

\* C18: one application of the zoom multiplies the scale of every layer by
\* the same factor 1 + zoomSpeed * dt; with zoomSpeed = 0.15 and dt = 1.0 a
\* layer at 1.0 becomes exactly 1.15; and when the grown front layer is at or
\* below recycleScale there is no recycle.
UniformGrowth ==
    [][ticks' # ticks =>
         LET factor == QAdd(Q(1, 1), QMul(state'.zoomSpeed, state'.deltaTime))
             grown  == recycleLog'[1]
         IN  /\ Len(grown) = Len(state.layers)
             /\ \A i \in 1..Len(grown) :
                  /\ grown[i].imageIndex = state.layers[i].imageIndex
                  /\ grown[i].scale = QMul(state.layers[i].scale, factor)
                  /\ (/\ state'.zoomSpeed = Q(15, 100)
                      /\ state'.deltaTime = Q(1, 1)
                      /\ state.layers[i].scale = Q(1, 1))
                     => grown[i].scale = Q(115, 100)
             /\ QLeq(Last(grown).scale, Q(4, 1))
                => /\ Len(recycleLog') = 1
                   /\ state'.layers = grown]_vars

\* Two updates with zoomSpeed = 0.15 and dt = 1.0: the first took the layer at
\* 1.0 to 1.15 (and recycled the front), the second took it to 1.3225 with no
\* recycle.
UniformGrowthWitness ==
    /\ ticks = 2
    /\ state.zoomSpeed = Q(15, 100)
    /\ state.deltaTime = Q(1, 1)
    /\ Len(recycleLog) = 1
    /\ Last(state.layers) = Layer(2, Q(13225, 10000))

\* ------------------------------------- the parallax smoothing over 100 ticks

\* After n updates the distance to the target is 0.95^n of what it was, a
\* fraction whose terms outgrow the integers after a few updates.  The value
\* is therefore enclosed between two multiples of 2^-26: each update applies
\* Smooth() to both ends (Smooth() is increasing in the current value), rounds
\* them outward to the grid and moves them one more unit outward, which
\* covers the rounding of the subtraction, the product and the sum in
\* doubles (below 2^-60 for values below 0.0075).
Units(k) == Norm(k, 1, 0 - 26)

Scaled(x) ==
    IF x[3] + 26 >= 0 THEN <<x[1] * Pow2(x[3] + 26), x[2]>>
    ELSE <<x[1], x[2] * Pow2(0 - (x[3] + 26))>>

FloorUnits(x) == Scaled(x)[1] \div Scaled(x)[2]
CeilUnits(x) == 0 - ((0 - Scaled(x)[1]) \div Scaled(x)[2])

SmoothDown(lo, target) == FloorUnits(Smooth(Units(lo), target)) - 1
SmoothUp(hi, target) == CeilUnits(Smooth(Units(hi), target)) + 1

InitP ==
    /\ Idle
    /\ \E clientX \in MouseXs, clientY \in MouseYs :
         probe = [n |-> 0,
                  target |-> onMouseMove(resizeCanvas(State0, win), clientX, clientY).targetParallax,
                  exact |-> State0.currentParallax,
                  lo |-> [x |-> 0, y |-> 0],
                  hi |-> [x |-> 0, y |-> 0]]

\* One update() with the target where the mouse left it.
SmoothTick ==
    /\ probe.n < SmoothTicks
    /\ probe' = [probe EXCEPT
                   !.n = probe.n + 1,
                   !.exact = IF probe.n < ExactTicks
                             THEN update([State0 EXCEPT !.currentParallax = probe.exact,
                                                        !.targetParallax = probe.target]).currentParallax
                             ELSE probe.exact,
                   !.lo = [x |-> SmoothDown(probe.lo.x, probe.target.x),
                           y |-> SmoothDown(probe.lo.y, probe.target.y)],
                   !.hi = [x |-> SmoothUp(probe.hi.x, probe.target.x),
                           y |-> SmoothUp(probe.hi.y, probe.target.y)]]
    /\ IdleUnchanged

NextP == SmoothTick

SpecP == InitP /\ [][NextP]_vars

QAbs(x) == IF x[1] < 0 THEN QNeg(x) ELSE x

\* Every value from Units(lo) to Units(hi) is within 1% of the target.
WithinOnePercent(lo, hi, target) ==
    /\ QLeq(QSub(target, QMul(QAbs(target), Q(1, 100))), Units(lo))
    /\ QLeq(Units(hi), QAdd(target, QMul(QAbs(target), Q(1, 100))))

\* C19: with the target fixed and parallaxSmoothing = 0.05 every tick sets
\* current := current + (target - current) * 0.05 on each axis from that
\* axis's values alone, so that the distance to the target is 0.95 times what
\* it was; and starting from 0, after 100 ticks the current value is within
\* 1% of the target.
ParallaxConverges ==
    [][probe'.n # probe.n =>
         /\ probe.n < ExactTicks =>
              /\ probe'.exact.x = QAdd(probe.exact.x,
                                       QMul(QSub(probe.target.x, probe.exact.x), Q(5, 100)))
              /\ probe'.exact.y = QAdd(probe.exact.y,
                                       QMul(QSub(probe.target.y, probe.exact.y), Q(5, 100)))
              /\ QSub(probe.target.x, probe'.exact.x)
                   = QMul(Q(95, 100), QSub(probe.target.x, probe.exact.x))
              /\ QSub(probe.target.y, probe'.exact.y)
                   = QMul(Q(95, 100), QSub(probe.target.y, probe.exact.y))
              /\ QLeq(Units(probe'.lo.x), probe'.exact.x)
              /\ QLeq(probe'.exact.x, Units(probe'.hi.x))
              /\ QLeq(Units(probe'.lo.y), probe'.exact.y)
              /\ QLeq(probe'.exact.y, Units(probe'.hi.y))
         /\ probe'.n = 100 =>
              /\ WithinOnePercent(probe'.lo.x, probe'.hi.x, probe.target.x)
              /\ WithinOnePercent(probe'.lo.y, probe'.hi.y, probe.target.y)]_vars

\* A hundred updates have run towards a target off the centre on both axes,
\* and the value has not reached it.
ParallaxWitness ==
    /\ probe.n = 100
    /\ probe.target = [x |-> Q(0 - 3, 1600), y |-> Q(0 - 3, 800)]
    /\ QLess(probe.target.x, Units(probe.lo.x))
    /\ QLess(probe.target.y, Units(probe.lo.y))

\* ------------------------------------------- the page once it has loaded

\* Every image has loaded and the loop is scheduled; the tab is in front, or
\* a visibilitychange has put it in the background.
Loaded == onAllImagesLoaded([resizeCanvas(State0, <<800, 600>>) EXCEPT !.imagesLoaded = ImageCount], 0)

InitLifecycle ==
    /\ matches = FALSE
    /\ win = <<800, 600>>
    /\ images = [i \in 1..ImageCount |-> "loaded"]
    /\ now = 0
    /\ hidden \in BOOLEAN
    /\ state = IF hidden THEN onVisibilityChange(Loaded, TRUE, now) ELSE Loaded
    /\ listening = TRUE
    /\ fallback = FALSE
    /\ rafPending = 1
    /\ touch = [lastTouchY |-> 0, lastPinchDist |-> 0]
    /\ canvas = <<>>
    /\ recycleLog = <<>>
    /\ callback = "none"
    /\ resumeAt = -1
    /\ elapsed = 0
    /\ ticks = 0
    /\ inputs = 0
    /\ probe = <<>>

\* The callbacks of the loop and the events that stop and resume it.
NextLifecycle ==
    \/ AnimationFrame
    \/ KeyDown
    \/ VisibilityChange
    \/ ReducedMotionChange
    \/ EnableClick

SpecLifecycle == InitLifecycle /\ [][NextLifecycle]_vars

\* C20: whenever state.reducedMotion is true, isPlaying is false and no
\* callback updates or renders, whatever the order of reduced-motion changes,
\* visibility changes, Space presses and inputs.
ReducedMotionStopsLoop ==
    [][/\ state'.reducedMotion => ~state'.isPlaying
       /\ state.reducedMotion => ticks' = ticks]_vars

\* C21: from a visibilitychange that hides the tab to the one that shows it
\* again isPlaying is false and no callback updates or renders, whatever
\* else happens while the tab is hidden (reduced-motion change,
\* enable-animation click, Space, inputs).
HiddenStopsLoop ==
    [][/\ hidden' => ~state'.isPlaying
       /\ (hidden /\ hidden') => ticks' = ticks]_vars

\* The stacks of the current state: the one update() left and those its
\* recycle loop went through.
Stacks == {state.layers} \cup {recycleLog[k] : k \in 1..Len(recycleLog)}

\* C22: after initialisation the scale of every layer is exactly initialScale
\* (0.25) times the scale of the next layer toward the front, in the stack
\* initLayers() builds, after the growth of a tick and after every recycle.
GeometricStack ==
    \A ls \in Stacks : \A i \in 1..(Len(ls) - 1) :
        ls[i].scale = QMul(Q(25, 100), ls[i + 1].scale)

\* Two updates have grown the stack and the second recycled twice.
GeometricStackWitness ==
    /\ ticks = 2
    /\ Len(recycleLog) = 3
    /\ state.layers[1].scale # Q(625, 10000)
    /\ QLess(Q(1, 1), Last(state.layers).scale)

\* C23: no input or lifecycle handler (wheel, key, mouse move, touch, resize,
\* visibility change, reduced-motion change, pause toggle, audio toggle)
\* changes a layer, totalZoom, currentRotation or currentParallax: a handler
\* changes zoomSpeed, targetParallax, the play and pause flags, lastTime and
\* the state of the user interface and of the audio only.  The stack and the
\* three values change in update() alone.
HandlersLeaveStackAlone ==
    [][inputs' # inputs =>
         /\ state'.layers = state.layers
         /\ state'.totalZoom = state.totalZoom
         /\ state'.currentRotation = state.currentRotation
         /\ state'.currentParallax = state.currentParallax
         /\ state'.deltaTime = state.deltaTime
         /\ state'.imagesLoaded = state.imagesLoaded
         /\ state'.allImagesLoaded = state.allImagesLoaded
         /\ canvas' = canvas
         /\ recycleLog' = recycleLog]_vars

\* A handler has run after a tick: the loop was resumed (by Space or by the
\* tab coming back) after the last callback that passed the gate.
HandlersWitness ==
    /\ ticks > 0
    /\ inputs = MaxInputs
    /\ resumeAt >= 0
    /\ state.totalZoom # Zero
    /\ Len(state.layers) = visibleLayers

\* Layer i of s is one render() is to draw: its image is complete and
\* diagonal * scale * 1.05 is at least 10.
Drawable(s, imgs, i) ==
    /\ imgs[s.layers[i].imageIndex + 1] # "pending"
    /\ QLeq(Q(10, 1), QMul(QMul(Q(Diagonal(s), 1), s.layers[i].scale), Q(105, 100)))

\* The frame the description of render() gives for s: the clear, the
\* drawable layers from the back to the front, the vignette.
FrameOf(s, imgs) ==
    LET idx == SelectSeq([i \in 1..Len(s.layers) |-> i], LAMBDA i : Drawable(s, imgs, i))
    IN  <<Clear>>
        \o [j \in 1..Len(idx) |-> [op |-> "drawImage", layer |-> idx[j],
                                   image |-> s.layers[idx[j]].imageIndex]]
        \o (IF enableVignette THEN <<Vignette>> ELSE <<>>)

\* C24: a rendered frame issues one clear of the whole viewport first, then
\* the layers in stack order from the back (index 0) to the front, a layer
\* being drawn if and only if its image is complete and
\* diagonal * scale * 1.05 >= 10, and the vignette last when enableVignette
\* is set.
FrameOrder == [][canvas' # canvas => canvas' = FrameOf(state', images')]_vars

\* ------------------------------- the algorithm of the architecture notes

\* "Layer initialization - nested scales": imageIndex is i, and there is no
\* sort.
DocInitLayers(L, R, S) == [i \in 1..L |-> Layer(i - 1, QMul(R, MathPow(S, L - i)))]

\* The body of the "Recycling - move front to back" loop: the popped object
\* gets layers[0].scale * initialScale and the image before layers[0]'s, and
\* is unshifted.  (layers[0] is read after the pop.)
DocRecycle(ls, S, N) ==
    LET rest == Front(ls)
    IN  <<Layer((rest[1].imageIndex - 1 + N) % N, QMul(rest[1].scale, S))>> \o rest

\* while (layers[layers.length - 1].scale > recycleScale)
RECURSIVE DocRecycleWhile(_, _, _, _)
DocRecycleWhile(ls, R, S, N) ==
    IF QLess(R, Last(ls).scale) THEN DocRecycleWhile(DocRecycle(ls, S, N), R, S, N) ELSE ls

\* "Animation loop - exponential zoom", then the recycling.
DocUpdate(ls, zoomSpeed, deltaTime) ==
    LET zoomFactor == QAdd(Q(1, 1), QMul(zoomSpeed, deltaTime))
    IN  DocRecycleWhile([i \in 1..Len(ls) |-> Layer(ls[i].imageIndex, QMul(ls[i].scale, zoomFactor))],
                        recycleScale, initialScale, ImageCount)

\* The code and the notes start from the same configuration ...
InitD ==
    /\ matches = FALSE
    /\ win = <<800, 600>>
    /\ images = [i \in 1..ImageCount |-> "loaded"]
    /\ now = 0
    /\ state = onAllImagesLoaded([resizeCanvas(State0, win) EXCEPT !.imagesLoaded = ImageCount],
                                 now)
    /\ listening = TRUE
    /\ fallback = FALSE
    /\ hidden = FALSE
    /\ rafPending = 1
    /\ touch = [lastTouchY |-> 0, lastPinchDist |-> 0]
    /\ canvas = <<>>
    /\ recycleLog = <<>>
    /\ callback = "none"
    /\ resumeAt = -1
    /\ elapsed = 0
    /\ ticks = 0
    /\ inputs = 0
    /\ probe = [layers |-> DocInitLayers(visibleLayers, recycleScale, initialScale)]

\* ... and go through the same ticks: update() on the state, the loop of the
\* notes on their stack.
UpdateBoth ==
    /\ ticks < MaxTicks
    /\ \E zoomSpeed \in Speeds, deltaTime \in Steps :
         LET s == [state EXCEPT !.zoomSpeed = zoomSpeed, !.deltaTime = deltaTime]
         IN  /\ state' = update(s)
             /\ recycleLog' = Recycled(s)
             /\ canvas' = render(state', images)
             /\ probe' = [layers |-> DocUpdate(probe.layers, zoomSpeed, deltaTime)]
    /\ callback' = "ran"
    /\ ticks' = ticks + 1
    /\ UNCHANGED <<images, now, hidden, matches, win, listening, rafPending, touch,
                   fallback, resumeAt, elapsed, inputs>>

NextD == UpdateBoth

SpecD == InitD /\ [][NextD]_vars

\* C25: the algorithm of the architecture notes (imageIndex i at
\* initialisation; on a recycle the popped front object gets the scale
\* layers[0].scale * initialScale and the image index
\* (layers[0].imageIndex - 1 + imageCount) % imageCount and is unshifted) and
\* the code (imageIndex i mod N; the front is discarded and a new record
\* unshifted) give the same stack of (imageIndex, scale) after any number of
\* ticks with the same speeds and steps.
NotesAgreeWithCode == probe.layers = state.layers

\* Both have gone through two ticks and three recycles.
NotesWitness ==
    /\ ticks = 2
    /\ probe.layers[1].imageIndex = 5
    /\ Len(recycleLog) >= 2

\* ------------------------------------------------------ the cursor timer

\* The part of the page resetCursorTimer() works on: the two classes of
\* document.body, the timers setTimeout() has pending (id and the instant
\* they are due), state.cursorTimer (0 for null), and the clock.
\* `activities` counts the calls and is the id of the last timer made;
\* `lastActivity` is the instant of the last call, -1 before the first.

\* resetCursorTimer() that leaves the pending timer alone (no clearTimeout).
resetCursorTimerNoClear(c) ==
    [c EXCEPT !.cursorHidden = FALSE,
              !.controlsVisible = TRUE,
              !.timers = c.timers \cup {[id |-> c.activities + 1, due |-> c.clock + cursorHideDelay]},
              !.cursorTimer = c.activities + 1,
              !.activities = c.activities + 1,
              !.lastActivity = c.clock]

\* resetCursorTimer()
resetCursorTimer(c) ==
    [c EXCEPT !.cursorHidden = FALSE,
              !.controlsVisible = TRUE,
              !.timers = {t \in c.timers : t.id # c.cursorTimer}
                         \cup {[id |-> c.activities + 1, due |-> c.clock + cursorHideDelay]},
              !.cursorTimer = c.activities + 1,
              !.activities = c.activities + 1,
              !.lastActivity = c.clock]

\* The callback given to setTimeout().
hideCursor(c, t) ==
    [c EXCEPT !.cursorHidden = TRUE, !.controlsVisible = FALSE, !.timers = c.timers \ {t}]

\* The page after init() with the listeners registered; which of the two
\* classes the markup gives document.body is not in the source, so either.
InitC ==
    /\ matches = FALSE
    /\ win = <<800, 600>>
    /\ state = resizeCanvas(State0, win)
    /\ images = loadImages(<<>>)
    /\ listening = TRUE
    /\ fallback = FALSE
    /\ now = 0
    /\ hidden = FALSE
    /\ rafPending = 0
    /\ touch = [lastTouchY |-> 0, lastPinchDist |-> 0]
    /\ canvas = <<>>
    /\ recycleLog = <<>>
    /\ callback = "none"
    /\ resumeAt = -1
    /\ elapsed = 0
    /\ ticks = 0
    /\ inputs = 0
    /\ \E h \in BOOLEAN, v \in BOOLEAN :
         probe = [cursorHidden |-> h, controlsVisible |-> v, timers |-> {}, cursorTimer |-> 0,
                  activities |-> 0, lastActivity |-> -1, clock |-> 0]

\* A mousemove or a touchstart: the resetCursorTimer listener runs.
Activity ==
    /\ listening
    /\ probe.activities < MaxActivities
    /\ probe' = resetCursorTimer(probe)
    /\ IdleUnchanged

\* Time passes; a timer that is due may still be waiting for its turn.
Wait ==
    /\ \E w \in Waits :
         /\ probe.clock + w <= MaxClock
         /\ probe' = [probe EXCEPT !.clock = probe.clock + w]
    /\ IdleUnchanged

\* A timer that is due runs its callback.
TimerFires ==
    /\ \E t \in probe.timers :
         /\ t.due <= probe.clock
         /\ probe' = hideCursor(probe, t)
    /\ IdleUnchanged

NextC == Activity \/ Wait \/ TimerFires

SpecC == InitC /\ [][NextC]_vars

ScrollDownSpeedsUp ==
    [][\A deltaY \in WheelDeltas :
         (inputs' # inputs /\ state' = onWheel(state, deltaY)) =>
            /\ deltaY > 0 =>
                 /\ QLeq(state.zoomSpeed, state'.zoomSpeed)
                 /\ state.zoomSpeed # Q(8, 10) => QLess(state.zoomSpeed, state'.zoomSpeed)
            /\ deltaY < 0 => QLeq(state'.zoomSpeed, state.zoomSpeed)]_vars

\* C28: after initialisation adjacent layers carry consecutive image
\* indices, layers[i+1].imageIndex = (layers[i].imageIndex + 1) mod N for
\* every i, in the stack initLayers() builds and after any number of
\* recycles.
ConsecutiveImages ==
    \A ls \in Stacks : \A i \in 1..(Len(ls) - 1) :
        ls[i + 1].imageIndex = (ls[i].imageIndex + 1) % ImageCount

\* Recycles have taken the stack to the images 6, 7, 0, 1: the indices wrap
\* inside the stack.
ConsecutiveImagesWitness ==
    /\ ticks > 0
    /\ state.layers[2].imageIndex = ImageCount - 1
    /\ state.layers[3].imageIndex = 0

\* C29: after initialisation and after every tick the scale of the front
\* layer is in (recycleScale * initialScale, recycleScale] = (1, 4]; every
\* scale is positive and the back layer's is in
\* (recycleScale * initialScale^4, recycleScale * initialScale^3]
\* = (1/64, 1/16], so that the scales stay within fixed bounds however long
\* the run.
ScalesBounded ==
    /\ QLess(Q(1, 1), Last(state.layers).scale)
    /\ QLeq(Last(state.layers).scale, Q(4, 1))
    /\ \A i \in 1..Len(state.layers) : QLess(Zero, state.layers[i].scale)
    /\ QLess(Q(1, 64), state.layers[1].scale)
    /\ QLeq(state.layers[1].scale, Q(1, 16))

\* A tick has recycled and left the front just above the lower bound.
ScalesBoundedWitness ==
    /\ ticks > 0
    /\ Len(recycleLog) >= 2
    /\ QLess(Last(state.layers).scale, Q(101, 100))

\* C30: zoomSpeed is at most maxSpeed (0.8) and deltaTime at most 0.1, so the
\* growth factor of a tick is at most 1 + 0.8 * 0.1 = 1.08, below
\* 1 / initialScale = 4 (and with the largest documented maxSpeed 2.0 and
\* initialScale 0.5, 1.2 is below 2); so a tick driven by animate() recycles
\* at most once.
AtMostOneRecycle ==
    [][/\ Len(recycleLog') <= 2
       /\ ticks' # ticks =>
            /\ QLeq(state'.zoomSpeed, Q(8, 10))
            /\ QLeq(state'.deltaTime, Q(1, 10))
            /\ QLeq(QAdd(Q(1, 1), QMul(state'.zoomSpeed, state'.deltaTime)), Q(108, 100))
            /\ QLess(Q(108, 100), Q(4, 1))
            /\ QLess(QAdd(Q(1, 1), QMul(Q(2, 1), Q(1, 10))), Q(2, 1))]_vars

\* A tick at maxSpeed with the full 0.1 s has recycled the front, once.
AtMostOneRecycleWitness ==
    /\ ticks > 0
    /\ Len(recycleLog) = 2
    /\ state.zoomSpeed = Q(8, 10)
    /\ state.deltaTime = Q(1, 10)
    /\ Last(state.layers).scale = Q(108, 100)

\* ------------------------------------------ the recycle loop on its own

InitT ==
    /\ Idle
    /\ probe \in [L : LayerCounts, R : RecycleScales, S : InitialScales, N : ImageCounts,
                  growth : Growths, log : {<<>>}]

\* The while loop of update() on the stack initLayers() builds for the drawn
\* configuration, grown by the drawn factor.
RecycleLoopCall ==
    /\ probe.log = <<>>
    /\ probe' = [probe EXCEPT
                   !.log = RecycleWhile(GrowLayers(InitLayers(probe.L, probe.R, probe.S, probe.N),
                                                   probe.growth),
                                        probe.R, probe.S, probe.N)]
    /\ IdleUnchanged

NextT == RecycleLoopCall

SpecT == InitT /\ [][NextT]_vars

\* front * S^k <= R
Settled(front, S, k, R) == QLeq(QMul(front, MathPow(S, k)), R)

\* C31: for 0 < initialScale < 1 and at least two layers the recycle loop
\* ends: every iteration leaves a front initialScale times the one before,
\* the number of iterations is the least k with
\* front * initialScale^k <= recycleScale, and no iteration empties the stack
\* or finds no back layer to read (the stack keeps its L layers).
RecycleLoopEnds ==
    (probe.log # <<>> /\ probe.L >= 2) =>
        LET k     == Len(probe.log) - 1
            front == Last(probe.log[1]).scale
        IN  /\ Settled(front, probe.S, k, probe.R)
            /\ \A j \in 0..(k - 1) : ~Settled(front, probe.S, j, probe.R)
            /\ \A n \in 1..(k + 1) : Len(probe.log[n]) = probe.L
            /\ \A n \in 1..k :
                 Last(probe.log[n + 1]).scale = QMul(Last(probe.log[n]).scale, probe.S)

\* Two layers at initialScale 0.5, grown 300 times: the loop ran 9 times.
RecycleLoopWitness ==
    /\ probe.log # <<>>
    /\ probe.L = 2
    /\ probe.S = Q(1, 2)
    /\ probe.growth = Q(300, 1)
    /\ Len(probe.log) = 10

\* C32: onAllImagesLoaded() runs at most once, whatever the order of the
\* load and error callbacks and however many times loadImages() is called
\* (by init and by enableAnimation): initLayers() is never run again over a
\* live stack, and there is one requestAnimationFrame chain, with exactly one
\* callback pending at any time after the start.
StartsOnce ==
    [][/\ rafPending' <= 1
       /\ state'.allImagesLoaded <=> rafPending' = 1
       /\ state.allImagesLoaded =>
            /\ state'.allImagesLoaded
            /\ rafPending' = rafPending
            /\ ticks' = ticks => state'.layers = state.layers]_vars

\* The loop has started and loads of a second loadImages() call have taken
\* the counter past the image count.
StartsOnceWitness ==
    /\ state.allImagesLoaded
    /\ rafPending = 1
    /\ Len(images) = 2 * ImageCount
    /\ state.imagesLoaded > ImageCount

\* C33: whenever allImagesLoaded is true every image at the indices 0..N-1
\* of state.images, the ones a layer can reference, has finished loading,
\* whatever the order of the load callbacks and of the loadImages() calls
\* enableAnimation makes before the first batch has finished.
LoadedMeansFirstBatchDone ==
    state.allImagesLoaded => \A i \in 1..ImageCount : images[i] # "pending"

\* C34: every step from a gated state (isPlaying false or isPaused true) to a
\* running one sets lastTime to the instant of the step, also when the loop
\* is resumed by onReducedMotionChange() through hideReducedMotionFallback()
\* or by enableAnimation(); so the first tick after an idle gap does not take
\* its deltaTime from a timestamp older than the gap.
EveryResumeSetsLastTime ==
    [][(/\ ~state.isPlaying \/ state.isPaused
        /\ state'.isPlaying
        /\ ~state'.isPaused
        /\ state'.allImagesLoaded)
       => state'.lastTime = now']_vars

====
